---- MODULE Spec2Model ----
(***************************************************************************)
(* Disease-surveillance pipeline: the ingestor (ingestor/ingestion.py)     *)
(* upserts the aggregate table kenya_outbreaks_2007_2022; the modeler      *)
(* (modeler/model_train.py) seeds disease_cases_yearly with a synthetic    *)
(* series when that table is empty, then forecasts FORECAST_HORIZON years  *)
(* per disease and upserts the rows into disease_forecasts.                *)
(*                                                                         *)
(* Numbers.  Python floats are modelled by exact rationals <<num, den>>    *)
(* (den > 0); NUMERIC(18,2) columns hold hundredths as integers.           *)
(* The output of np.random.default_rng(42) is not computed: the generator  *)
(* is a fixed but unknown sequence of standard-normal draws, represented   *)
(* by a periodic sequence of whole standard deviations chosen in Init.     *)
(* The result of the statsmodels fit is an input of the forecast step.     *)
(***************************************************************************)
EXTENDS Integers, Sequences, FiniteSets

VARIABLES
    agg,        \* kenya_outbreaks_2007_2022: does it exist, its rows (disease, cases)
    yearly,     \* disease_cases_yearly: set of rows, key (disease, year)
    forecasts,  \* disease_forecasts: sequence of rows, key (disease, year)
    stream,     \* the draws of default_rng(42), one period of them
    rngPos,     \* number of draws the last generator has handed out
    pc,         \* modeler main(): idle, schema, synth, forecast, done, failed
    attempts,   \* modeler connect(): psycopg2.connect calls made so far
    conn,       \* modeler connect() has returned a connection
    runs,       \* modeler runs started
    lastFc,     \* main()'s locals: disease -> result of fit_and_forecast
    fitLog,     \* the calls of ExponentialSmoothing(...).fit in this run, and how each ended
    prevYearly, \* the rows the previous synthesis over this table produced
    ipc,        \* ingestor main(): idle, connecting, done, failed
    iattempts   \* ingestor connect(): psycopg2.connect calls made so far

vars == <<agg, yearly, forecasts, stream, rngPos, pc, attempts, conn, runs,
          lastFc, fitLog, prevYearly, ipc, iattempts>>

----------------------------------------------------------------------------
(* Bounds of the model *)

MaxTotal == 9        \* aggregate totals range over 0..MaxTotal and one high-burden total
StreamPeriod == 3    \* the draw sequence repeats after this many draws
MaxRuns == 2         \* modeler runs per behaviour

(* Program constants *)

FirstYear == 2007
LastYear == 2022
FORECAST_HORIZON == 3
IngestMaxAttempts == 20
\* a retry loop that runs once too often
RetryOffByOne == IngestMaxAttempts + 1
MaxAttempts == 20
HighBurden == 10000
MinFitPoints == 4

Diseases == {"cholera", "measles"}
\* the diseases in collation order (ORDER BY disease, groupby's sorted keys)
DiseaseOrder == <<"cholera", "measles">>
\* kenya_outbreaks_2007_2022 before the ingestor's DDL has run
NoTable == [exists |-> FALSE, rows |-> {}]
\* a draw is a whole number of standard deviations
Noise == {-1, 0, 1}

YEARS == [i \in 1..(LastYear - FirstYear + 1) |-> FirstYear + i - 1]

----------------------------------------------------------------------------
(* Arithmetic helpers *)

Max(a, b) == IF a >= b THEN a ELSE b

Abs(a) == IF a < 0 THEN -a ELSE a

RECURSIVE SumSeq(_)
SumSeq(s) == IF s = <<>> THEN 0 ELSE Head(s) + SumSeq(Tail(s))

\* Python's round() on p/q, p >= 0, q > 0: to nearest, ties to even
RoundHalfEven(p, q) ==
    LET fl == p \div q
        r2 == 2 * (p % q)
    IN  IF r2 < q THEN fl
        ELSE IF r2 > q THEN fl + 1
        ELSE IF fl % 2 = 0 THEN fl ELSE fl + 1

\* a float written to a NUMERIC(18,2) column: hundredths, ties away from zero
ToNumeric(x) ==
    LET p == 100 * Abs(x[1])
        q == x[2]
        m == IF 2 * (p % q) >= q THEN (p \div q) + 1 ELSE p \div q
    IN  IF x[1] < 0 THEN -m ELSE m

----------------------------------------------------------------------------
(* SeriesSynthesizer: build_synthetic_if_empty *)

\* the k-th draw (k = 0, 1, ...) of a generator seeded with 42
Draw(k) == stream[k % StreamPeriod]

SlopePct(total_cases) == IF total_cases > HighBurden THEN 15 ELSE 5

\* val = max(0.0, base + slope*i + noise) with base = total/n,
\* slope = SlopePct/100 * base/n and noise = z * 0.1 * base, so that
\* val = base/(100 n) * Weight and v*scale = total * Weight / (sum of Weights)
Weight(total_cases, i, z) ==
    LET n == Len(YEARS)
    IN  Max(0, 100 * n + SlopePct(total_cases) * i + 10 * n * z)

Provisional(total_cases, pos) ==
    [i \in 1..Len(YEARS) |-> Weight(total_cases, i - 1, Draw(pos + i - 1))]

\* scale = total / max(1e-9, sum(yearly)); yearly = [max(0, int(round(v*scale)))]
Rescaled(total_cases, w) ==
    LET W == SumSeq(w)
    IN  [i \in 1..Len(w) |->
            IF total_cases = 0 \/ W = 0 THEN 0
            ELSE Max(0, RoundHalfEven(total_cases * w[i], W))]

\* the rounded series left as it is: the drift stays in the sum
DriftIgnored(total_cases, y) == y

\* diff = total_cases - sum(yearly); if diff != 0: yearly[-1] += diff
DriftCorrected(total_cases, y) ==
    LET diff == total_cases - SumSeq(y)
    IN  IF diff # 0 THEN [y EXCEPT ![Len(y)] = y[Len(y)] + diff] ELSE y

SyntheticSeries(total_cases, pos) ==
    DriftCorrected(total_cases, Rescaled(total_cases, Provisional(total_cases, pos)))

\* what SELECT disease, cases ... ORDER BY cases DESC may return: the rows
\* by descending cases, rows with equal cases in any order
GenerationOrders(rows) ==
    {o \in [1..Cardinality(rows) -> rows] :
        /\ \A i, j \in DOMAIN o : i # j => o[i] # o[j]
        /\ \A i, j \in DOMAIN o : i < j => o[i].cases >= o[j].cases}

\* one generator shared by all calls: it goes on where the last call stopped
GlobalRngPos == rngPos

\* rng = np.random.default_rng(42): a generator that has handed out no draw
FreshRngPos == 0

\* the rows list: one row per disease and year, drawn in the order of totals
SyntheticRows(totals, start) ==
    UNION {
        LET y == SyntheticSeries(totals[k].cases, start + (k - 1) * Len(YEARS))
        IN  {[disease |-> totals[k].disease, year |-> YEARS[i], cases |-> y[i],
              source |-> "synthetic"] : i \in 1..Len(YEARS)}
        : k \in DOMAIN totals}

\* INSERT ... ON CONFLICT (disease, year) DO NOTHING
InsertDoNothing(table, rows) ==
    table \cup {r \in rows :
                  ~\E t \in table : t.disease = r.disease /\ t.year = r.year}

\* the gate of table_has_real_yearly_data: synthetic rows do not count
SkipUnlessReal(table) == \E r \in table : r.source # "synthetic"

\* SELECT COUNT(*) FROM disease_cases_yearly; if ... > 0: return
SkipSynthesis(table) == table # {}

----------------------------------------------------------------------------
(* ForecastEngine: fetch_timeseries, fit_and_forecast *)

Entities(table) == {r.disease : r \in table}

SeriesOf(table, d) == {r \in table : r.disease = d}

RECURSIVE SumCases(_)
SumCases(rows) ==
    IF rows = {} THEN 0
    ELSE LET r == CHOOSE x \in rows : TRUE
         IN  r.cases + SumCases(rows \ {r})

LastYearOf(rows) == CHOOSE y \in {r.year : r \in rows} : \A r \in rows : r.year <= y

\* 'real' only when no row is synthetic
DataSourceAllReal(table) ==
    IF table # {} /\ \A r \in table : r.source # "synthetic" THEN "real" ELSE "synthetic"

\* 'real' if (df['source'] != 'synthetic').any() else 'synthetic'
DataSource(table) ==
    IF \E r \in table : r.source # "synthetic" THEN "real" ELSE "synthetic"

\* what ExponentialSmoothing(...).fit(...) and model.forecast can do: return
\* horizon values with a residual standard deviation, or raise err
FitOutcomes ==
    {[ok |-> TRUE, fc |-> <<180, 200, 220>>, sd |-> 5, err |-> ""],
     [ok |-> TRUE, fc |-> <<7, 7, 7>>, sd |-> 0, err |-> ""],
     [ok |-> FALSE, fc |-> <<>>, sd |-> 0, err |-> "LinAlgError"]}

\* the length test alone
TooShort(rows) == Cardinality(rows) < MinFitPoints

\* if len(s) < 4 or s.sum() == 0
TooShortOrZero(rows) == Cardinality(rows) < MinFitPoints \/ SumCases(rows) = 0

\* [float(s.mean())] * horizon, three times
MeanForecast(rows, tag) ==
    LET f == [i \in 1..FORECAST_HORIZON |-> <<SumCases(rows), Cardinality(rows)>>]
    IN  [fc |-> f, lo |-> f, hi |-> f, method |-> tag, raised |-> FALSE]

\* f'fallback-mean ({e})'
FallbackTag(e) == <<"fallback-mean", " (", e, ")">>

\* fit_and_forecast without its except clause: the error leaves the function
FitAndForecastUncaught(rows, outcome) ==
    IF TooShortOrZero(rows) THEN MeanForecast(rows, <<"naive-mean">>)
    ELSE IF outcome.ok
    THEN [fc |-> [i \in 1..FORECAST_HORIZON |-> <<outcome.fc[i], 1>>],
          lo |-> [i \in 1..FORECAST_HORIZON |->
                     <<100 * outcome.fc[i] - 196 * outcome.sd, 100>>],
          hi |-> [i \in 1..FORECAST_HORIZON |->
                     <<100 * outcome.fc[i] + 196 * outcome.sd, 100>>],
          method |-> <<"holt-winters-additive">>, raised |-> FALSE]
    ELSE [fc |-> <<>>, lo |-> <<>>, hi |-> <<>>, method |-> <<outcome.err>>,
          raised |-> TRUE]

\* try: fit, forecast, band; except Exception as e: the mean, tagged with e
FitAndForecast(rows, outcome) ==
    IF TooShortOrZero(rows) THEN MeanForecast(rows, <<"naive-mean">>)
    ELSE IF outcome.ok
    THEN [fc |-> [i \in 1..FORECAST_HORIZON |-> <<outcome.fc[i], 1>>],
          lo |-> [i \in 1..FORECAST_HORIZON |->
                     <<100 * outcome.fc[i] - 196 * outcome.sd, 100>>],
          hi |-> [i \in 1..FORECAST_HORIZON |->
                     <<100 * outcome.fc[i] + 196 * outcome.sd, 100>>],
          method |-> <<"holt-winters-additive">>, raised |-> FALSE]
    ELSE MeanForecast(rows, FallbackTag(outcome.err))

\* the year after the fixed window YEARS
StartYearFixed(table, d) == YEARS[Len(YEARS)] + 1

\* start_year = int(df['year'].max()) + 1
StartYear(table, d) == LastYearOf(SeriesOf(table, d)) + 1

\* the rows main() appends for one disease
ForecastRows(table, d, res, data_source) ==
    [i \in 1..FORECAST_HORIZON |->
        [disease |-> d, year |-> StartYear(table, d) + i - 1,
         forecast_cases |-> ToNumeric(res.fc[i]),
         lower_ci |-> ToNumeric(res.lo[i]),
         upper_ci |-> ToNumeric(res.hi[i]),
         method |-> res.method, data_source |-> data_source]]

RECURSIVE AllRows(_, _, _, _)
AllRows(ds, table, results, data_source) ==
    IF ds = <<>> THEN <<>>
    ELSE ForecastRows(table, Head(ds), results[Head(ds)], data_source)
         \o AllRows(Tail(ds), table, results, data_source)

\* a plain INSERT
AppendRow(table, row) == Append(table, row)

\* INSERT ... ON CONFLICT (disease, year) DO UPDATE SET ... = EXCLUDED. ...
Upsert(table, row) ==
    IF \E i \in DOMAIN table :
          table[i].disease = row.disease /\ table[i].year = row.year
    THEN [i \in DOMAIN table |->
            IF table[i].disease = row.disease /\ table[i].year = row.year
            THEN row ELSE table[i]]
    ELSE Append(table, row)

RECURSIVE WriteForecasts(_, _)
WriteForecasts(table, rows) ==
    IF rows = <<>> THEN table
    ELSE WriteForecasts(Upsert(table, Head(rows)), Tail(rows))

----------------------------------------------------------------------------
(* modeler: connect() and main() *)

Stages == {"schema", "synth", "forecast"}

modelerLocals == <<pc, attempts, conn, runs, lastFc, fitLog>>
ingestorLocals == <<ipc, iattempts>>
stores == <<agg, yearly, forecasts>>

StartRun ==
    /\ pc \in {"idle", "done", "failed"}
    /\ runs < MaxRuns
    /\ pc' = "schema"
    /\ attempts' = 0
    /\ conn' = FALSE
    /\ runs' = runs + 1
    /\ lastFc' = <<>>
    /\ fitLog' = {}
    /\ UNCHANGED <<stores, stream, rngPos, prevYearly, ingestorLocals>>

\* psycopg2.connect raises: print, sleep, next i
ConnectRetry ==
    /\ pc \in Stages
    /\ ~conn
    /\ attempts < MaxAttempts
    /\ attempts' = attempts + 1
    /\ UNCHANGED <<stores, stream, rngPos, prevYearly, ingestorLocals,
                   pc, conn, runs, lastFc, fitLog>>

\* psycopg2.connect returns: return conn
ConnectOk ==
    /\ pc \in Stages
    /\ ~conn
    /\ attempts < MaxAttempts
    /\ attempts' = attempts + 1
    /\ conn' = TRUE
    /\ UNCHANGED <<stores, stream, rngPos, prevYearly, ingestorLocals,
                   pc, runs, lastFc, fitLog>>

\* the loop is exhausted: raise RuntimeError, which ends main()
ConnectRaise ==
    /\ pc \in Stages
    /\ ~conn
    /\ attempts >= MaxAttempts
    /\ pc' = "failed"
    /\ UNCHANGED <<stores, stream, rngPos, prevYearly, ingestorLocals,
                   attempts, conn, runs, lastFc, fitLog>>

\* CREATE TABLE IF NOT EXISTS for both tables
EnsureSchema ==
    /\ pc = "schema"
    /\ conn
    /\ pc' = "synth"
    /\ conn' = FALSE
    /\ attempts' = 0
    /\ UNCHANGED <<stores, stream, rngPos, prevYearly, ingestorLocals,
                   runs, lastFc, fitLog>>

BuildSyntheticIfEmpty ==
    /\ pc = "synth"
    /\ conn
    /\ conn' = FALSE
    /\ attempts' = 0
    /\ \/ /\ SkipSynthesis(yearly)
          /\ pc' = "forecast"
          /\ UNCHANGED <<yearly, rngPos>>
       \/ /\ ~SkipSynthesis(yearly)
          /\ ~agg.exists
          /\ pc' = "failed"
          /\ UNCHANGED <<yearly, rngPos>>
       \/ /\ ~SkipSynthesis(yearly)
          /\ agg.exists
          /\ \E totals \in GenerationOrders(agg.rows) :
                yearly' = InsertDoNothing(yearly, SyntheticRows(totals, FreshRngPos))
          /\ rngPos' = FreshRngPos + Len(YEARS) * Cardinality(agg.rows)
          /\ pc' = "forecast"
    /\ UNCHANGED <<agg, forecasts, stream, prevYearly, ingestorLocals,
                   runs, lastFc, fitLog>>

TrainAndForecast ==
    /\ pc = "forecast"
    /\ conn
    /\ \E outcome \in [Entities(yearly) -> FitOutcomes] :
          LET results == [d \in Entities(yearly) |->
                             FitAndForecast(SeriesOf(yearly, d), outcome[d])]
              ds == SelectSeq(DiseaseOrder, LAMBDA d : d \in Entities(yearly))
          IN  /\ lastFc' = results
              /\ fitLog' = {[disease |-> d, ok |-> outcome[d].ok, err |-> outcome[d].err] :
                               d \in {e \in Entities(yearly) :
                                         ~TooShortOrZero(SeriesOf(yearly, e))}}
              \* an exception leaving fit_and_forecast would leave main() too
              /\ IF \E d \in Entities(yearly) : results[d].raised
                 THEN /\ forecasts' = forecasts
                      /\ pc' = "failed"
                 ELSE /\ forecasts' = WriteForecasts(forecasts,
                                  AllRows(ds, yearly, results, DataSource(yearly)))
                      /\ pc' = "done"
    /\ conn' = FALSE
    /\ attempts' = 0
    /\ UNCHANGED <<agg, yearly, stream, rngPos, prevYearly, ingestorLocals, runs>>

Modeler ==
    \/ StartRun
    \/ ConnectRetry
    \/ ConnectOk
    \/ ConnectRaise
    \/ EnsureSchema
    \/ BuildSyntheticIfEmpty
    \/ TrainAndForecast

----------------------------------------------------------------------------
(* ingestor: connect() and main() *)

\* what the CSV file can hold
CsvTables == {{}, {[disease |-> "cholera", cases |-> MaxTotal]}}

\* INSERT ... ON CONFLICT (disease) DO UPDATE SET cases = EXCLUDED.cases, ...
UpsertTotals(table, rows) ==
    [exists |-> TRUE,
     rows |-> {t \in table.rows : ~\E r \in rows : r.disease = t.disease} \cup rows]

IngestStart ==
    /\ ipc = "idle"
    /\ ipc' = "connecting"
    /\ iattempts' = 0
    /\ UNCHANGED <<stores, stream, rngPos, prevYearly, modelerLocals>>

IngestConnectRetry ==
    /\ ipc = "connecting"
    /\ iattempts < IngestMaxAttempts
    /\ iattempts' = iattempts + 1
    /\ UNCHANGED <<stores, stream, rngPos, prevYearly, modelerLocals, ipc>>

\* connect() returns; cur.execute(DDL); execute_values(cur, UPSERT, rows)
IngestUpsert ==
    /\ ipc = "connecting"
    /\ iattempts < IngestMaxAttempts
    /\ iattempts' = iattempts + 1
    /\ \E csv \in CsvTables : agg' = UpsertTotals(agg, csv)
    /\ ipc' = "done"
    /\ UNCHANGED <<yearly, forecasts, stream, rngPos, prevYearly, modelerLocals>>

IngestConnectRaise ==
    /\ ipc = "connecting"
    /\ iattempts >= IngestMaxAttempts
    /\ ipc' = "failed"
    /\ UNCHANGED <<stores, stream, rngPos, prevYearly, modelerLocals, iattempts>>

Ingestor ==
    \/ IngestStart
    \/ IngestConnectRetry
    \/ IngestUpsert
    \/ IngestConnectRaise

----------------------------------------------------------------------------
(* Initial states and specifications *)

Totals == (0..MaxTotal) \cup {HighBurden + 1}

TotalsTable(f) == [exists |-> TRUE,
                   rows |-> {[disease |-> d, cases |-> f[d]] : d \in DOMAIN f}]

TotalsTables == UNION {{TotalsTable(f) : f \in [D -> Totals]} : D \in SUBSET Diseases}

Streams == [0..(StreamPeriod - 1) -> Noise]

FlatStream == [k \in 0..(StreamPeriod - 1) |-> 0]

\* per-year data loaded from outside, or left by an earlier deployment
RealShort(d) ==
    {[disease |-> d, year |-> 2020, cases |-> 3, source |-> "real"],
     [disease |-> d, year |-> 2021, cases |-> 4, source |-> "real"]}

RealLong(d) ==
    {[disease |-> d, year |-> 2018 + i, cases |-> 80 + 20 * i, source |-> "real"]
        : i \in 1..4}

ZeroSynthetic(d) ==
    {[disease |-> d, year |-> 2009 + i, cases |-> 0, source |-> "synthetic"]
        : i \in 1..5}

LongSynthetic(d) ==
    {[disease |-> d, year |-> 2006 + i, cases |-> i, source |-> "synthetic"]
        : i \in 1..4}

SeriesOptions(d) == {{}, RealShort(d), RealLong(d), ZeroSynthetic(d), LongSynthetic(d)}

YearlyTables == {a \cup b : a \in SeriesOptions("cholera"), b \in SeriesOptions("measles")}

InitLocals ==
    /\ forecasts = <<>>
    /\ rngPos = 0
    /\ pc = "idle"
    /\ attempts = 0
    /\ conn = FALSE
    /\ runs = 0
    /\ lastFc = <<>>
    /\ fitLog = {}
    /\ prevYearly = {}
    /\ ipc = "idle"
    /\ iattempts = 0

\* the modeler against a database in any state the ingestor or a loader left
Init ==
    /\ InitLocals
    /\ \/ /\ yearly = {}
          /\ agg \in {NoTable, [exists |-> TRUE, rows |-> {}],
                      TotalsTable([d \in Diseases |-> MaxTotal]),
                      TotalsTable([d \in Diseases |->
                                      IF d = "cholera" THEN HighBurden + 1 ELSE 0])}
          /\ stream \in {FlatStream, [k \in 0..(StreamPeriod - 1) |-> IF k = 0 THEN -1 ELSE 1]}
       \/ /\ yearly \in YearlyTables \ {{}}
          /\ agg \in {NoTable, TotalsTable([d \in Diseases |-> MaxTotal])}
          /\ stream = FlatStream

Next == Modeler

Spec == Init /\ [][Next]_vars

\* ingestor and modeler started together against a new database
InitPipeline ==
    /\ InitLocals
    /\ agg = NoTable
    /\ yearly \in {{}, LongSynthetic("measles")}
    /\ stream = FlatStream

NextPipeline == Modeler \/ Ingestor

\* each connect() loop keeps running: an attempt returns or raises, sleep ends
SpecPipeline ==
    /\ InitPipeline
    /\ [][NextPipeline]_vars
    /\ WF_vars(ConnectRetry \/ ConnectOk \/ ConnectRaise)
    /\ WF_vars(IngestConnectRetry \/ IngestUpsert \/ IngestConnectRaise)

\* build_synthetic_if_empty applied to an empty store, once per deployment
SynthesizeFresh ==
    /\ runs < MaxRuns
    /\ \E totals \in GenerationOrders(agg.rows) :
          yearly' = InsertDoNothing({}, SyntheticRows(totals, FreshRngPos))
    /\ rngPos' = FreshRngPos + Len(YEARS) * Cardinality(agg.rows)
    /\ prevYearly' = yearly
    /\ runs' = runs + 1
    /\ UNCHANGED <<agg, forecasts, stream, pc, attempts, conn, lastFc, fitLog,
                   ingestorLocals>>

InitSynth ==
    /\ InitLocals
    /\ yearly = {}
    /\ agg \in TotalsTables
    /\ stream \in Streams

NextSynth == SynthesizeFresh

SpecSynth == InitSynth /\ [][NextSynth]_vars

----------------------------------------------------------------------------
(* Properties of the synthesizer, under SpecSynth *)

\* year -> cases of one disease's rows
CasesByYear(table, d) == {<<r.year, r.cases>> : r \in SeriesOf(table, d)}

\* C1: every synthesized disease has one row per year of YEARS, and its yearly
\* cases sum to its total_cases exactly, after rescaling, rounding and the
\* drift correction on the last year
C1_SumEqualsTotal ==
    runs > 0 =>
        \A t \in agg.rows :
            /\ {r.year : r \in SeriesOf(yearly, t.disease)} = {YEARS[i] : i \in DOMAIN YEARS}
            /\ Cardinality(SeriesOf(yearly, t.disease)) = Len(YEARS)
            /\ SumCases(SeriesOf(yearly, t.disease)) = t.cases

\* a synthesis whose rounded series did not sum to the total: the drift
\* correction has acted
C1_Witness ==
    /\ runs > 0
    /\ \E t \in agg.rows :
          /\ agg.rows = {t}
          /\ t.cases > 0
          /\ SumSeq(Rescaled(t.cases, Provisional(t.cases, 0))) # t.cases
          /\ SumCases(SeriesOf(yearly, t.disease)) = t.cases

\* C2: every yearly value of a synthesized series is >= 0, the last year's
\* value after the drift correction included
C2_NonNegative == \A r \in yearly : r.cases >= 0

\* C9 as stated: two syntheses over the same aggregate table give the same rows,
\* and two diseases with the same total_cases get the same series in one run
C9_SameTotalSameSeries ==
    /\ runs >= 2 => yearly = prevYearly
    /\ runs >= 1 =>
          \A t, u \in agg.rows :
              t.cases = u.cases =>
                  CasesByYear(yearly, t.disease) = CasesByYear(yearly, u.disease)

\* C9 amended: two syntheses over the same aggregate table give every disease
\* whose total_cases no other disease shares the same series, and give the
\* diseases that share a total the same series up to an exchange among them
C9_DeterministicPerPosition ==
    runs >= 2 =>
        /\ \A t \in agg.rows :
              (\A u \in agg.rows : u.cases = t.cases => u = t) =>
                  SeriesOf(yearly, t.disease) = SeriesOf(prevYearly, t.disease)
        /\ \A t \in agg.rows :
              \E u \in agg.rows :
                  /\ u.cases = t.cases
                  /\ CasesByYear(yearly, t.disease) = CasesByYear(prevYearly, u.disease)

\* two syntheses have run over a table of two diseases with different totals,
\* and the noise has made the years differ
C9_Witness ==
    /\ runs = 2
    /\ \E t, u \in agg.rows :
          /\ t.cases > u.cases
          /\ u.cases > 0
          /\ \E r, q \in SeriesOf(yearly, u.disease) : r.cases # q.cases
          /\ SeriesOf(yearly, t.disease) = SeriesOf(prevYearly, t.disease)

----------------------------------------------------------------------------
(* Properties of the modeler, under Spec *)

ForecastsOf(d) == {i \in DOMAIN forecasts : forecasts[i].disease = d}

\* C3 as stated: a second run after any run leaves the yearly store unchanged
C3_SecondRunAfterAnyRun == [][runs >= 2 => yearly' = yearly]_vars

\* C3 amended: synthesis is gated on the yearly store being empty: no step of
\* any run changes a store that holds a row, so a run after a run that found
\* or left a row in the store leaves it unchanged; the forecast step never
\* changes the store
C3_SynthesisGated ==
    [][/\ yearly # {} => yearly' = yearly
       /\ pc = "forecast" => yearly' = yearly]_vars

\* a second run has ended over a store that holds only synthetic rows, and
\* only for some of the diseases of the aggregate table
C3_Witness ==
    /\ runs = 2
    /\ pc = "done"
    /\ yearly # {}
    /\ \A r \in yearly : r.source = "synthetic"
    /\ \E t \in agg.rows : t.disease \notin Entities(yearly)

\* C4: the forecast store holds at most one row per (disease, year) and
\* exactly horizon rows per disease; after a run every row holds the point,
\* bounds, method and provenance of that run
C4_UpsertNoDuplicates ==
    /\ \A i, j \in DOMAIN forecasts :
          (forecasts[i].disease = forecasts[j].disease
             /\ forecasts[i].year = forecasts[j].year) => i = j
    /\ \A d \in {forecasts[i].disease : i \in DOMAIN forecasts} :
          Cardinality(ForecastsOf(d)) = 3
    /\ pc = "done" =>
          \A i \in DOMAIN forecasts :
              LET f == forecasts[i]
                  res == lastFc[f.disease]
                  k == CHOOSE k \in 1..3 : Cardinality({j \in ForecastsOf(f.disease) :
                                                forecasts[j].year < f.year}) = k - 1
              IN  /\ f.method = res.method
                  /\ f.forecast_cases = ToNumeric(res.fc[k])
                  /\ f.lower_ci = ToNumeric(res.lo[k])
                  /\ f.upper_ci = ToNumeric(res.hi[k])
                  /\ f.data_source = DataSource(yearly)

\* the forecast step has run twice over a store of two diseases
C4_Witness ==
    /\ runs = 2
    /\ pc = "done"
    /\ Len(forecasts) = 6
    /\ \E i \in DOMAIN forecasts : forecasts[i].method = <<"holt-winters-additive">>

\* C5: a series of fewer than 4 points, or whose cases sum to zero, is never
\* fitted: horizon points equal to the series mean, lower = upper = point,
\* method naive-mean; an all-zero series yields zero points
C5_NaiveMean ==
    \A d \in DOMAIN lastFc :
        LET rows == SeriesOf(yearly, d)
            n == Cardinality(rows)
            total == SumCases(rows)
            res == lastFc[d]
        IN  /\ (n < 4 \/ total = 0) =>
                  /\ \A e \in fitLog : e.disease # d
                  /\ res.method = <<"naive-mean">>
                  /\ DOMAIN res.fc = 1..3
                  /\ \A i \in 1..3 :
                        /\ res.fc[i][1] * n = total * res.fc[i][2]
                        /\ res.lo[i] = res.fc[i]
                        /\ res.hi[i] = res.fc[i]
            /\ (\A r \in rows : r.cases = 0) =>
                  /\ res.method = <<"naive-mean">>
                  /\ \A i \in 1..3 : res.fc[i][1] = 0
                  /\ \A i \in ForecastsOf(d) : forecasts[i].forecast_cases = 0

\* one run has forecast a short series with a non-zero mean and an all-zero
\* series of more than 4 points
C5_Witness ==
    /\ pc = "done"
    /\ \E d, e \in DOMAIN lastFc :
          /\ Cardinality(SeriesOf(yearly, d)) < 4
          /\ SumCases(SeriesOf(yearly, d)) > 0
          /\ Cardinality(SeriesOf(yearly, e)) > 4
          /\ \A r \in SeriesOf(yearly, e) : r.cases = 0
          /\ lastFc[e].method = <<"naive-mean">>

\* C6: a fit that raises does not end the run: the disease gets horizon rows
\* holding its series mean, a zero-width band and a fallback-mean tag with the
\* error text, and every disease of the store gets its own horizon rows
C6_FitFailureIsolated ==
    \A e \in fitLog :
        ~e.ok =>
            LET rows == SeriesOf(yearly, e.disease)
                n == Cardinality(rows)
                total == SumCases(rows)
            IN  /\ pc = "done"
                /\ e.disease \in DOMAIN lastFc
                /\ lastFc[e.disease].method[1] = "fallback-mean"
                /\ \E i \in DOMAIN lastFc[e.disease].method :
                      lastFc[e.disease].method[i] = e.err
                /\ \A i \in 1..3 :
                      /\ lastFc[e.disease].fc[i][1] * n = total * lastFc[e.disease].fc[i][2]
                      /\ lastFc[e.disease].lo[i] = lastFc[e.disease].fc[i]
                      /\ lastFc[e.disease].hi[i] = lastFc[e.disease].fc[i]
                /\ \A i \in ForecastsOf(e.disease) :
                      /\ forecasts[i].method = lastFc[e.disease].method
                      /\ forecasts[i].lower_ci = forecasts[i].forecast_cases
                      /\ forecasts[i].upper_ci = forecasts[i].forecast_cases
                /\ \A d \in Entities(yearly) :
                      /\ Cardinality(ForecastsOf(d)) = 3
                      /\ \A i \in ForecastsOf(d) : forecasts[i].method = lastFc[d].method

\* in one run the fit of one disease has raised and the fit of another has not
C6_Witness ==
    /\ pc = "done"
    /\ \E e, f \in fitLog :
          /\ ~e.ok
          /\ f.ok
          /\ lastFc[f.disease].method = <<"holt-winters-additive">>
          /\ Cardinality(ForecastsOf(f.disease)) = 3

\* C7: after a run every forecast row carries the same provenance tag: real
\* if some row of the yearly store is not synthetic, synthetic otherwise
C7_BatchProvenance ==
    pc = "done" =>
        \A i \in DOMAIN forecasts :
            forecasts[i].data_source =
                IF \E r \in yearly : r.source # "synthetic" THEN "real" ELSE "synthetic"

\* a forecast row tagged real of a disease whose rows are all synthetic
C7_Witness ==
    /\ pc = "done"
    /\ \E i \in DOMAIN forecasts :
          /\ forecasts[i].data_source = "real"
          /\ \A r \in SeriesOf(yearly, forecasts[i].disease) : r.source = "synthetic"

\* C8: after a run every disease of the yearly store has exactly horizon
\* forecast rows, for the horizon years that follow the last year of its own
\* series
C8_ForecastYears ==
    pc = "done" =>
        \A d \in Entities(yearly) :
            LET last == CHOOSE y \in {r.year : r \in SeriesOf(yearly, d)} :
                            \A r \in SeriesOf(yearly, d) : r.year <= y
            IN  /\ Cardinality(ForecastsOf(d)) = 3
                /\ {forecasts[i].year : i \in ForecastsOf(d)} = (last + 1)..(last + 3)

\* two diseases whose series end in different years, neither in 2022
C8_Witness ==
    /\ pc = "done"
    /\ \E d, e \in Entities(yearly) :
          /\ \A r \in SeriesOf(yearly, d) : r.year <= 2014
          /\ \E r \in SeriesOf(yearly, e) : r.year = 2021
          /\ \A r \in SeriesOf(yearly, e) : r.year <= 2021
          /\ \E i \in ForecastsOf(e) : forecasts[i].year = 2024

----------------------------------------------------------------------------
(* Properties of connect(), under SpecPipeline *)

\* C10: connect makes at most 20 attempts, makes no attempt after the one that
\* succeeds, raises only after 20 failed attempts and then ends the run with
\* both stores as they were, and always terminates
C10_ConnectTerminates ==
    /\ [](attempts <= 20 /\ iattempts <= 20)
    /\ [][conn => attempts' \in {attempts, 0}]_vars
    /\ [][(pc \in Stages /\ ~conn /\ pc' = "failed") => attempts = 20]_vars
    /\ [][(pc \in Stages /\ ~conn /\ attempts = 20) => pc' \in {pc, "failed"} /\ ~conn']_vars
    /\ [][(pc \in Stages /\ ~conn) => (yearly' = yearly /\ forecasts' = forecasts)]_vars
    /\ [][(ipc = "connecting" /\ ipc' = "failed") => (iattempts = 20 /\ agg' = agg)]_vars
    /\ [][(ipc = "connecting" /\ iattempts = 20) => ipc' \in {ipc, "failed"}]_vars
    /\ (pc \in Stages /\ ~conn) ~> (conn \/ pc = "failed")
    /\ (ipc = "connecting") ~> (ipc \in {"done", "failed"})

\* both connect loops have given up after 20 failed attempts, the modeler's in
\* a second run whose first run had filled the yearly store
C10_Witness ==
    /\ pc = "failed"
    /\ attempts = 20
    /\ ~conn
    /\ runs = 2
    /\ yearly # {}
    /\ ipc = "failed"
    /\ iattempts = 20

====
